---- MODULE Spec2Model ----
(***************************************************************************)
(* libmonzo: the local OAuth callback server (libmonzo/utilities.py,      *)
(* OAuthServer) and the login handshake that drives it (libmonzo/monzo.py, *)
(* MonzoClient.authenticate).                                              *)
(*                                                                         *)
(* Python strings are modelled as sequences of one-character strings, so   *)
(* that splitting and decoding a request path is computed, not assumed.    *)
(***************************************************************************)
EXTENDS Integers, Sequences, FiniteSets, TLC

VARIABLES
    _cancelled,     \* OAuthServer._cancelled
    _completed,     \* OAuthServer._completed
    _path,          \* OAuthServer._path (set by __init__, never used again)
    path,           \* OAuthServer.path, the attribute handler_callback writes
                    \* (Nothing until then)
    lock,           \* OAuthServer.lock: "free" or the thread that holds it
    listening,      \* the HTTPServer socket is bound and listening
    pc,             \* position of every thread
    hpath,          \* argument of the handler_callback call a thread is in
    pending,        \* connections queued on the port, not yet accepted
    arrived,        \* connections that arrived so far
    attempts,       \* handle_request calls made by wait_for_call (saturating)
    result,         \* what wait_for_call returned
    pathChoices,    \* request paths the environment may send
    state_token,    \* MonzoClient.state_token
    access_token,   \* MonzoClient.access_token
    browser,        \* the URL handed to webbrowser.open
    outcome,        \* how authenticate() ended
    posted,         \* data of the token-exchange POST, once issued
    stopsDone,      \* stop() calls completed
    directDone,     \* direct handler_callback calls completed
    firstPath,      \* history: path argument of the first handler_callback
    captures,       \* history: handler_callback calls that wrote (saturating)
    lateAccepts,    \* history: requests accepted after a flag was set
    stopsAtStart,   \* history: stop() calls completed when wait_for_call began
    response,       \* the answer to the token-exchange POST, once received
    restCall,       \* the last call of a REST helper: status and error raised
    calls,          \* authenticate() calls begun
    initToken,      \* history: state_token as MonzoClient.__init__ set it
    methodChoices,  \* request methods the environment may send
    request,        \* the request the handler was last run for
    reply,          \* the response the handler sent to that request
    cbCount,        \* callback invocations made for that request
    dedupeDefault,  \* the default of dedupe_id of the two pot operations
    potCall,        \* the last pot operation: what was passed and sent
    omittedSent     \* history: dedupe_id values sent by calls that passed none

vars == << _cancelled, _completed, _path, path, lock, listening, pc, hpath,
           pending, arrived, attempts, result, pathChoices, state_token,
           access_token, browser, outcome, posted, stopsDone, directDone,
           firstPath, captures, lateAccepts, stopsAtStart, response, restCall,
           calls, initToken, methodChoices, request, reply, cbCount,
           dedupeDefault, potCall, omittedSent >>

----------------------------------------------------------------------------
(* Bounds of the model.                                                    *)

\* connections the environment opens to the redirect port
MaxConns == 2
\* stop() calls made by the second thread
MaxStops == 1
\* handler_callback calls made directly by a third thread
MaxDirect == 1
\* cap of the history counters (attempts, captures, lateAccepts)
MaxCount == 2
\* longest code / state value of the parsing specification
MaxValLen == 2
\* authenticate() calls made on one client
MaxAuthCalls == 2
\* largest HTTP status a REST helper is answered with
MaxStatus == 599

Threads == {"auth", "stopper", "direct"}

----------------------------------------------------------------------------
(* Values.                                                                 *)

None == "None"
Unset == "unset"

\* A variable that holds a string (a sequence) or a record, or nothing yet,
\* holds Some(x) or Nothing.
Nothing == << >>
Some(x) == << x >>

Min(a, b) == IF a < b THEN a ELSE b

\* utilities.py:13
_SECRETS_ALPHABET ==
    << "A","B","C","D","E","F","G","H","I","J","K","L","M","N","P","Q","R",
       "S","T","U","V","W","X","Y","Z","a","b","c","d","e","f","g","h","j",
       "k","m","n","p","q","r","s","t","u","v","w","x","y","z","2","3","4",
       "5","6","7","8","9" >>

\* random_string(length): one secrets.choice per position; draws[i] is the
\* index secrets.choice picked for position i.
random_string(length, draws) ==
    [i \in 1..length |-> _SECRETS_ALPHABET[draws[i] + 1]]

\* monzo.py:41, the length of the state token
StateTokenLength == 20

\* monzo.py:200 and 221, the length of a default dedupe_id
DedupeLength == 20

\* The draws of the random source that the model explores.
DrawSeqs ==
    { [i \in 1..StateTokenLength |-> (a + 3 * i) % Len(_SECRETS_ALPHABET)]
        : a \in {0, 7} }

----------------------------------------------------------------------------
(* urllib.parse, as wait_for_call uses it.                                 *)

\* index of the first ch in s, 0 when absent
RECURSIVE IndexFrom(_, _, _)
IndexFrom(s, ch, i) ==
    IF i > Len(s) THEN 0
    ELSE IF s[i] = ch THEN i
    ELSE IndexFrom(s, ch, i + 1)

Find(s, ch) == IndexFrom(s, ch, 1)

\* str.split(ch, 1): << before, after >>, or << s >> when ch is absent
SplitOnce(s, ch) ==
    LET i == Find(s, ch) IN
    IF i = 0 THEN << s >>
    ELSE << SubSeq(s, 1, i - 1), SubSeq(s, i + 1, Len(s)) >>

\* str.split(ch)
RECURSIVE Split(_, _)
Split(s, ch) ==
    LET i == Find(s, ch) IN
    IF i = 0 THEN << s >>
    ELSE << SubSeq(s, 1, i - 1) >> \o Split(SubSeq(s, i + 1, Len(s)), ch)

\* str.replace('+', ' ')
PlusToSpace(s) == [i \in 1..Len(s) |-> IF s[i] = "+" THEN " " ELSE s[i]]

HexDigits == << "0","1","2","3","4","5","6","7","8","9",
                "A","B","C","D","E","F" >>
HexLower == << "0","1","2","3","4","5","6","7","8","9",
               "a","b","c","d","e","f" >>

IsHex(ch) == Find(HexDigits, ch) > 0 \/ Find(HexLower, ch) > 0
HexVal(ch) ==
    IF Find(HexDigits, ch) > 0 THEN Find(HexDigits, ch) - 1
    ELSE Find(HexLower, ch) - 1

\* printable ASCII, code 32 first (the grave accent, code 96, by its name)
Ascii ==
    << " ","!","\"","#","$","%","&","'","(",")","*","+",",","-",".","/",
       "0","1","2","3","4","5","6","7","8","9",":",";","<","=",">","?",
       "@","A","B","C","D","E","F","G","H","I","J","K","L","M","N","O",
       "P","Q","R","S","T","U","V","W","X","Y","Z","[","\\","]","^","_",
       "U+0060","a","b","c","d","e","f","g","h","i","j","k","l","m","n","o",
       "p","q","r","s","t","u","v","w","x","y","z","{","|","}","~" >>

\* The character of one decoded byte. A byte of 128 or more that is not part
\* of a valid UTF-8 sequence decodes to U+FFFD (errors='replace'); control
\* characters are kept as their code.
Chr(code) ==
    IF code >= 32 /\ code <= 126 THEN Ascii[code - 31]
    ELSE IF code >= 128 THEN "U+FFFD"
    ELSE ToString(code)

\* urllib.parse.unquote: %XX becomes the character, anything else is kept
RECURSIVE unquote(_)
unquote(s) ==
    IF Len(s) = 0 THEN << >>
    ELSE IF s[1] = "%" /\ Len(s) >= 3 /\ IsHex(s[2]) /\ IsHex(s[3])
         THEN << Chr(16 * HexVal(s[2]) + HexVal(s[3])) >>
              \o unquote(SubSeq(s, 4, Len(s)))
    ELSE << s[1] >> \o unquote(Tail(s))

\* urllib.parse.urlparse(p).query for a request path p (no scheme, no
\* netloc): the fragment is cut at the first '#', then the query is what
\* follows the first '?'.
UrlQuery(p) ==
    LET noFragment == SplitOnce(p, "#")[1]
        parts == SplitOnce(noFragment, "?")
    IN  IF Len(parts) = 2 THEN parts[2] ELSE << >>

\* urllib.parse.parse_qsl(query): the (name, value) pairs, in order.
\* keep_blank_values and strict_parsing are False: an empty field, a field
\* with no '=' and a field with an empty value are all dropped.
RECURSIVE PairsOf(_)
PairsOf(fields) ==
    IF Len(fields) = 0 THEN << >>
    ELSE LET nv == SplitOnce(Head(fields), "=")
             rest == PairsOf(Tail(fields))
         IN  IF Len(Head(fields)) = 0 THEN rest
             ELSE IF Len(nv) # 2 THEN rest
             ELSE IF Len(nv[2]) = 0 THEN rest
             ELSE << << unquote(PlusToSpace(nv[1])),
                        unquote(PlusToSpace(nv[2])) >> >> \o rest

parse_qsl(query) == PairsOf(Split(query, "&"))

\* the values of one name, in order
RECURSIVE ValuesOf(_, _)
ValuesOf(pairs, name) ==
    IF Len(pairs) = 0 THEN << >>
    ELSE IF Head(pairs)[1] = name
         THEN << Head(pairs)[2] >> \o ValuesOf(Tail(pairs), name)
    ELSE ValuesOf(Tail(pairs), name)

\* urllib.parse.parse_qs(query): a dict from each name to its values
parse_qs(query) ==
    LET pairs == parse_qsl(query)
        names == { pairs[i][1] : i \in 1..Len(pairs) }
    IN  [n \in names |-> ValuesOf(pairs, n)]

----------------------------------------------------------------------------
(* Request paths.                                                          *)

\* MonzoClient.REDIRECT_PORT, monzo.py:23
REDIRECT_PORT == 36453

\* "/" + MonzoClient.REDIRECT_PATH, monzo.py:24
CallbackPath ==
    << "/","m","o","n","z","o","_","c","a","l","l","b","a","c","k" >>

KeyCode == << "c","o","d","e" >>
KeyState == << "s","t","a","t","e" >>

\* name=value
Field(name, value) == name \o << "=" >> \o value

\* /monzo_callback?f1&f2&...
RECURSIVE JoinFields(_)
JoinFields(fields) ==
    IF Len(fields) = 0 THEN << >>
    ELSE IF Len(fields) = 1 THEN fields[1]
    ELSE fields[1] \o << "&" >> \o JoinFields(Tail(fields))

PathWith(fields) == CallbackPath \o << "?" >> \o JoinFields(fields)

\* the redirect the provider sends: ?code=ABC&state=XYZ
CodeStatePath(abc, xyz) ==
    PathWith(<< Field(KeyCode, abc), Field(KeyState, xyz) >>)

Code1 == << "A","U","T","H","C","O","D","E","1" >>
Code2 == << "c","2" >>
OtherState == << "a","b","c","1","2","X","Y","Z" >>

\* The requests the environment may send to a client whose state token is
\* tok: the provider's redirect, and requests with a wrong, missing or
\* repeated state and a missing or repeated code.
CallbackPaths(tok) ==
    { CodeStatePath(Code1, tok),
      CodeStatePath(Code1, OtherState),
      PathWith(<< Field(KeyState, OtherState) >>),
      PathWith(<< Field(KeyState, tok) >>),
      PathWith(<< Field(KeyCode, Code1) >>),
      PathWith(<< Field(KeyCode, Code1), Field(KeyCode, Code2),
                  Field(KeyState, tok) >>),
      PathWith(<< Field(KeyCode, Code1), Field(KeyState, tok),
                  Field(KeyState, OtherState) >>) }

\* The paths a direct call of handler_callback is made with: a copy of the
\* provider's redirect, and a redirect with another code and state.
DirectPaths(tok) ==
    { CodeStatePath(Code1, tok), CodeStatePath(Code2, OtherState) }

\* characters of the code and state values of the parsing specification
ValueChars == {"A", "7", "+", "&", "#"}

\* every string over ValueChars of length at most n
RECURSIVE StringsUpTo(_)
StringsUpTo(n) ==
    IF n = 0 THEN { << >> }
    ELSE LET shorter == StringsUpTo(n - 1) IN
         shorter \cup { Append(s, c) : s \in shorter, c \in ValueChars }

----------------------------------------------------------------------------
(* The client and the server after construction.                           *)

NotReturned == [kind |-> "running", params |-> << >>]
ReturnedNone == [kind |-> "none", params |-> << >>]
Returned(params) == [kind |-> "params", params |-> params]
Raised == [kind |-> "raised", params |-> << >>]

\* the operations on pots that take a dedupe_id, monzo.py:195-235
PotOps == {"deposit", "withdraw"}

\* no pot operation was called yet
NoPotCall ==
    [op |-> "none", supplied |-> Nothing, sent |-> Nothing, raised |-> "none"]

\* monzo.py:200 and 221: each default is one random_string(20), drawn when
\* the def statement is executed; here with one fixed pair of draws
FixedDefaults ==
    dedupeDefault =
      [k \in PotOps |->
         random_string(DedupeLength,
            [i \in 1..DedupeLength |->
               ((IF k = "deposit" THEN 11 ELSE 23) + 5 * i)
                  % Len(_SECRETS_ALPHABET)])]

\* the same with the draws the model explores
DrawnDefaults ==
    \E d \in [PotOps -> DrawSeqs] :
        dedupeDefault =
          [k \in PotOps |-> random_string(DedupeLength, d[k])]

\* the request methods create_request_handler defines a do_ method for,
\* utilities.py:38-41
HandledMethods == {"GET", "POST", "PUT", "DELETE"}

\* the browser follows the provider's redirect with a GET
BrowserMethods == {"GET"}

\* no REST helper was called yet
NoRestCall ==
    [method |-> "none", bearer |-> None, status |-> 0, raised |-> "none"]

\* MonzoClient.__init__: the fields of a new client; the server does not
\* exist before authenticate() constructs it.
ClientInit ==
    /\ \E d \in DrawSeqs : state_token = random_string(StateTokenLength, d)
    /\ access_token = None
    /\ browser = Nothing
    /\ outcome = "running"
    /\ posted = Nothing
    /\ response = Nothing
    /\ restCall = NoRestCall
    /\ initToken = state_token
    /\ potCall = NoPotCall
    /\ omittedSent = [k \in PotOps |-> {}]
    /\ request = Nothing
    /\ reply = Nothing
    /\ cbCount = 0

\* the first authenticate() call of a new client is about to run
FirstCall ==
    /\ ClientInit
    /\ calls = 1
    /\ _cancelled = FALSE
    /\ _completed = FALSE
    /\ _path = Unset
    /\ path = Nothing
    /\ lock = "free"
    /\ listening = FALSE
    /\ pc = [t \in Threads |->
                IF t = "auth" THEN "a_construct"
                ELSE IF t = "stopper" THEN "s_idle" ELSE "d_idle"]
    /\ hpath = [t \in Threads |-> Nothing]
    /\ pending = 0
    /\ arrived = 0
    /\ attempts = 0
    /\ result = NotReturned
    /\ stopsDone = 0
    /\ directDone = 0
    /\ firstPath = Nothing
    /\ captures = 0
    /\ lateAccepts = 0
    /\ stopsAtStart = 0

Init ==
    /\ FirstCall
    /\ pathChoices = CallbackPaths(state_token)
    /\ methodChoices = BrowserMethods
    /\ FixedDefaults

\* a new client on which no operation was called yet
IdleClient ==
    /\ ClientInit
    /\ calls = 0
    /\ _cancelled = FALSE
    /\ _completed = FALSE
    /\ _path = Unset
    /\ path = Nothing
    /\ lock = "free"
    /\ listening = FALSE
    /\ pc = [t \in Threads |->
                IF t = "auth" THEN "c_idle"
                ELSE IF t = "stopper" THEN "s_idle" ELSE "d_idle"]
    /\ hpath = [t \in Threads |-> Nothing]
    /\ pending = 0
    /\ arrived = 0
    /\ attempts = 0
    /\ result = NotReturned
    /\ pathChoices = CallbackPaths(state_token)
    /\ stopsDone = 0
    /\ directDone = 0
    /\ firstPath = Nothing
    /\ captures = 0
    /\ lateAccepts = 0
    /\ stopsAtStart = 0

IdleInit ==
    /\ IdleClient
    /\ methodChoices = BrowserMethods
    /\ FixedDefaults

serverVars == << _cancelled, _completed, _path, path >>
clientVars == << state_token, access_token, browser, outcome, posted >>
envVars == << pending, arrived, pathChoices >>
histVars == << firstPath, captures, lateAccepts, stopsAtStart >>
callVars == << response, restCall, calls, initToken >>
handlerVars == << methodChoices, request, reply, cbCount >>
potVars == << dedupeDefault, potCall, omittedSent >>

Goto(t, label) == pc' = [pc EXCEPT ![t] = label]

----------------------------------------------------------------------------
(* The environment: a connection reaches the redirect port.                *)

Arrive ==
    /\ listening
    /\ arrived < MaxConns
    /\ arrived' = arrived + 1
    /\ pending' = pending + 1
    /\ UNCHANGED callVars
    /\ UNCHANGED << handlerVars, potVars >>
    /\ UNCHANGED << serverVars, clientVars, histVars, lock, listening, pc,
                    hpath, attempts, result, pathChoices, stopsDone,
                    directDone >>

----------------------------------------------------------------------------
(* OAuthServer.                                                            *)

\* AuthConstruct with HTTPServer.__init__ told not to bind and activate: the
\* server object exists, the port is not open
AuthConstructUnbound ==
    /\ pc["auth"] = "a_construct"
    /\ ~listening
    /\ _cancelled' = FALSE
    /\ _completed' = FALSE
    /\ _path' = None
    /\ lock' = "free"
    /\ listening' = FALSE
    /\ Goto("auth", "a_browser")
    /\ UNCHANGED callVars
    /\ UNCHANGED << handlerVars, potVars >>
    /\ UNCHANGED << path, clientVars, envVars, histVars, hpath, attempts,
                    result, stopsDone, directDone >>

\* OAuthServer.__init__ (utilities.py:52-63), called by authenticate
\* (monzo.py:50): the fields, the lock, and HTTPServer.__init__, which binds
\* the port and listens.
AuthConstruct ==
    /\ pc["auth"] = "a_construct"
    /\ ~listening
    /\ _cancelled' = FALSE
    /\ _completed' = FALSE
    /\ _path' = None
    /\ lock' = "free"
    /\ listening' = TRUE
    /\ Goto("auth", "a_browser")
    /\ UNCHANGED callVars
    /\ UNCHANGED << handlerVars, potVars >>
    /\ UNCHANGED << path, clientVars, envVars, histVars, hpath, attempts,
                    result, stopsDone, directDone >>

\* lock.acquire() by thread t at label from: blocks while the lock is held
Acquire(t, from, to) ==
    /\ pc[t] = from
    /\ lock = "free"
    /\ lock' = t
    /\ Goto(t, to)

\* handler_callback, utilities.py:67
HandlerAcquire(t) ==
    /\ Acquire(t, "h_acquire", "h_write")
    /\ UNCHANGED callVars
    /\ UNCHANGED << handlerVars, potVars >>
    /\ UNCHANGED << serverVars, clientVars, envVars, histVars, listening,
                    hpath, attempts, result, stopsDone, directDone >>

\* handler_callback, utilities.py:68-69
HandlerWrite(t) ==
    /\ pc[t] = "h_write"
    /\ _completed' = TRUE
    /\ path' = hpath[t]
    /\ firstPath' = IF captures = 0 THEN hpath[t] ELSE firstPath
    /\ captures' = Min(captures + 1, MaxCount)
    /\ Goto(t, "h_release")
    /\ UNCHANGED callVars
    /\ UNCHANGED << handlerVars, potVars >>
    /\ UNCHANGED << _cancelled, _path, clientVars, envVars, lateAccepts,
                    stopsAtStart, lock, listening, hpath, attempts, result,
                    stopsDone, directDone >>

\* handler_callback, utilities.py:70, and the return to the caller: the
\* request handler inside handle_request, or the thread that called it
HandlerRelease(t) ==
    /\ pc[t] = "h_release"
    /\ lock' = "free"
    /\ hpath' = [hpath EXCEPT ![t] = Nothing]
    /\ IF t = "auth"
       THEN Goto(t, "w_acquire") /\ UNCHANGED directDone
       ELSE Goto(t, "d_idle") /\ directDone' = directDone + 1
    /\ UNCHANGED callVars
    /\ UNCHANGED << handlerVars, potVars >>
    /\ UNCHANGED << serverVars, clientVars, envVars, histVars, listening,
                    attempts, result, stopsDone >>

\* wait_for_call, utilities.py:77
WaitAcquire ==
    /\ Acquire("auth", "w_acquire", "w_check")
    /\ UNCHANGED callVars
    /\ UNCHANGED << handlerVars, potVars >>
    /\ UNCHANGED << serverVars, clientVars, envVars, histVars, listening,
                    hpath, attempts, result, stopsDone, directDone >>

\* LoopExit without the test of _cancelled
LoopExitCompletedOnly(completed, cancelled) == completed

\* LoopExit without the test of _completed
LoopExitCancelledOnly(completed, cancelled) == cancelled

\* LoopExit with the first test negated
LoopExitNegated(completed, cancelled) == ~completed \/ cancelled

\* the two break tests of the loop, utilities.py:79-83
LoopExit(completed, cancelled) == completed \/ cancelled

\* wait_for_call, utilities.py:79-83
WaitCheck ==
    /\ pc["auth"] = "w_check"
    /\ IF LoopExit(_completed, _cancelled)
       THEN Goto("auth", "w_break")
       ELSE Goto("auth", "w_release")
    /\ UNCHANGED callVars
    /\ UNCHANGED << handlerVars, potVars >>
    /\ UNCHANGED << serverVars, clientVars, envVars, histVars, lock,
                    listening, hpath, attempts, result, stopsDone,
                    directDone >>

\* WaitRelease with the release left out: handle_request() is entered with
\* the lock still held
WaitReleaseKeepsLock ==
    /\ pc["auth"] = "w_release"
    /\ Goto("auth", "w_handle")
    /\ UNCHANGED callVars
    /\ UNCHANGED << handlerVars, potVars >>
    /\ UNCHANGED << serverVars, clientVars, envVars, histVars, lock,
                    listening, hpath, attempts, result, stopsDone,
                    directDone >>

\* the finally of the loop body, utilities.py:85-86, when no break was taken
WaitRelease ==
    /\ pc["auth"] = "w_release"
    /\ lock' = "free"
    /\ Goto("auth", "w_handle")
    /\ UNCHANGED callVars
    /\ UNCHANGED << handlerVars, potVars >>
    /\ UNCHANGED << serverVars, clientVars, envVars, histVars, listening,
                    hpath, attempts, result, stopsDone, directDone >>

\* WaitBreak with no finally: the break leaves the loop with the lock held
WaitBreakKeepsLock ==
    /\ pc["auth"] = "w_break"
    /\ Goto("auth", "w_acquire2")
    /\ UNCHANGED callVars
    /\ UNCHANGED << handlerVars, potVars >>
    /\ UNCHANGED << serverVars, clientVars, envVars, histVars, lock,
                    listening, hpath, attempts, result, stopsDone,
                    directDone >>

\* the same finally, run by a break on its way out of the loop
WaitBreak ==
    /\ pc["auth"] = "w_break"
    /\ lock' = "free"
    /\ Goto("auth", "w_acquire2")
    /\ UNCHANGED callVars
    /\ UNCHANGED << handlerVars, potVars >>
    /\ UNCHANGED << serverVars, clientVars, envVars, histVars, listening,
                    hpath, attempts, result, stopsDone, directDone >>

\* wait_for_call, utilities.py:88: handle_request starts to wait, for at
\* most self.timeout, for a connection
HandleRequest ==
    /\ pc["auth"] = "w_handle"
    /\ attempts' = Min(attempts + 1, MaxCount)
    /\ Goto("auth", "w_select")
    /\ UNCHANGED callVars
    /\ UNCHANGED << handlerVars, potVars >>
    /\ UNCHANGED << serverVars, clientVars, envVars, histVars, lock,
                    listening, hpath, result, stopsDone, directDone >>

\* utilities.py:33-35: the response base_handler sends
Acknowledgement == [status |-> 200, body |-> "Done. Please go back to the app."]

\* the response of BaseHTTPRequestHandler to a method the handler class has
\* no do_ method for
NotImplemented == [status |-> 501, body |-> "Unsupported method"]

\* HandleAccept for a handler class that defines do_GET alone
HandleAcceptGetOnly ==
    /\ pc["auth"] = "w_select"
    /\ pending > 0
    /\ pending' = pending - 1
    /\ \E m \in methodChoices, p \in pathChoices :
          /\ request' = Some([method |-> m, path |-> p])
          /\ IF m = "GET"
             THEN /\ reply' = Some(Acknowledgement)
                  /\ cbCount' = 1
                  /\ hpath' = [hpath EXCEPT !["auth"] = Some(p)]
                  /\ Goto("auth", "h_acquire")
             ELSE /\ reply' = Some(NotImplemented)
                  /\ cbCount' = 0
                  /\ UNCHANGED hpath
                  /\ Goto("auth", "w_acquire")
    /\ lateAccepts' = IF _completed \/ _cancelled
                      THEN Min(lateAccepts + 1, MaxCount) ELSE lateAccepts
    /\ UNCHANGED << callVars, potVars, methodChoices >>
    /\ UNCHANGED << serverVars, clientVars, arrived, pathChoices, firstPath,
                    captures, stopsAtStart, lock, listening, attempts,
                    result, stopsDone, directDone >>

\* handle_request accepts a queued connection and runs the request handler
\* on its request, of method m and path p. For GET, POST, PUT and DELETE
\* that is base_handler (utilities.py:31-41): it answers 200 with the fixed
\* body and then calls the callback, once, with self.path. For another
\* method the handler has nothing to run: 501, and no callback.
HandleAccept ==
    /\ pc["auth"] = "w_select"
    /\ pending > 0
    /\ pending' = pending - 1
    /\ \E m \in methodChoices, p \in pathChoices :
          /\ request' = Some([method |-> m, path |-> p])
          /\ IF m \in HandledMethods
             THEN /\ reply' = Some(Acknowledgement)
                  /\ cbCount' = 1
                  /\ hpath' = [hpath EXCEPT !["auth"] = Some(p)]
                  /\ Goto("auth", "h_acquire")
             ELSE /\ reply' = Some(NotImplemented)
                  /\ cbCount' = 0
                  /\ UNCHANGED hpath
                  /\ Goto("auth", "w_acquire")
    /\ lateAccepts' = IF _completed \/ _cancelled
                      THEN Min(lateAccepts + 1, MaxCount) ELSE lateAccepts
    /\ UNCHANGED << callVars, potVars, methodChoices >>
    /\ UNCHANGED << serverVars, clientVars, arrived, pathChoices, firstPath,
                    captures, stopsAtStart, lock, listening, attempts,
                    result, stopsDone, directDone >>

\* handle_request returns after self.timeout without a connection
HandleTimeout ==
    /\ pc["auth"] = "w_select"
    /\ pending = 0
    /\ Goto("auth", "w_acquire")
    /\ UNCHANGED callVars
    /\ UNCHANGED << handlerVars, potVars >>
    /\ UNCHANGED << serverVars, clientVars, envVars, histVars, lock,
                    listening, hpath, attempts, result, stopsDone,
                    directDone >>

\* wait_for_call, utilities.py:92
WaitAcquire2 ==
    /\ Acquire("auth", "w_acquire2", "w_result")
    /\ UNCHANGED callVars
    /\ UNCHANGED << handlerVars, potVars >>
    /\ UNCHANGED << serverVars, clientVars, envVars, histVars, listening,
                    hpath, attempts, result, stopsDone, directDone >>

\* WaitResultOf with the two tests of utilities.py:94-99 in the other order
WaitResultOfCompletedFirst(cancelled, completed, p) ==
    IF completed THEN Returned(parse_qs(UrlQuery(p[1])))
    ELSE IF cancelled THEN ReturnedNone
    ELSE Raised

\* WaitResultOf with parse_qs applied to the path itself, not to its query
WaitResultOfWholePath(cancelled, completed, p) ==
    IF cancelled THEN ReturnedNone
    ELSE IF completed THEN Returned(parse_qs(p[1]))
    ELSE Raised

\* wait_for_call, utilities.py:94-101: the value returned, or the raise
WaitResultOf(cancelled, completed, p) ==
    IF cancelled THEN ReturnedNone
    ELSE IF completed THEN Returned(parse_qs(UrlQuery(p[1])))
    ELSE Raised

WaitResult ==
    /\ pc["auth"] = "w_result"
    /\ result' = WaitResultOf(_cancelled, _completed, path)
    /\ Goto("auth", "w_release2")
    /\ UNCHANGED callVars
    /\ UNCHANGED << handlerVars, potVars >>
    /\ UNCHANGED << serverVars, clientVars, envVars, histVars, lock,
                    listening, hpath, attempts, stopsDone, directDone >>

\* the finally of utilities.py:103-104, then the return to authenticate (or
\* the exception leaving it)
WaitReturn ==
    /\ pc["auth"] = "w_release2"
    /\ lock' = "free"
    /\ IF result.kind = "raised"
       THEN /\ outcome' = "Exception: Call should be cancelled or completed by this point"
            /\ Goto("auth", "a_done")
       ELSE /\ UNCHANGED outcome
            /\ Goto("auth", "a_validate")
    /\ UNCHANGED callVars
    /\ UNCHANGED << handlerVars, potVars >>
    /\ UNCHANGED << serverVars, state_token, access_token, browser, posted,
                    envVars, histVars, listening, hpath, attempts, result,
                    stopsDone, directDone >>

\* stop() is called by the second thread, utilities.py:107
StopCall ==
    /\ pc["stopper"] = "s_idle"
    /\ listening
    /\ stopsDone < MaxStops
    /\ Goto("stopper", "s_acquire")
    /\ UNCHANGED callVars
    /\ UNCHANGED << handlerVars, potVars >>
    /\ UNCHANGED << serverVars, clientVars, envVars, histVars, lock,
                    listening, hpath, attempts, result, stopsDone,
                    directDone >>

\* StopAcquire with the acquire left out
StopWithoutAcquire ==
    /\ pc["stopper"] = "s_acquire"
    /\ Goto("stopper", "s_write")
    /\ UNCHANGED callVars
    /\ UNCHANGED << handlerVars, potVars >>
    /\ UNCHANGED << serverVars, clientVars, envVars, histVars, lock,
                    listening, hpath, attempts, result, stopsDone,
                    directDone >>

\* stop, utilities.py:109
StopAcquire ==
    /\ Acquire("stopper", "s_acquire", "s_write")
    /\ UNCHANGED callVars
    /\ UNCHANGED << handlerVars, potVars >>
    /\ UNCHANGED << serverVars, clientVars, envVars, histVars, listening,
                    hpath, attempts, result, stopsDone, directDone >>

\* stop, utilities.py:110
StopWrite ==
    /\ pc["stopper"] = "s_write"
    /\ _cancelled' = TRUE
    /\ Goto("stopper", "s_release")
    /\ UNCHANGED callVars
    /\ UNCHANGED << handlerVars, potVars >>
    /\ UNCHANGED << _completed, _path, path, clientVars, envVars, histVars,
                    lock, listening, hpath, attempts, result, stopsDone,
                    directDone >>

\* stop, utilities.py:111
StopRelease ==
    /\ pc["stopper"] = "s_release"
    /\ lock' = "free"
    /\ stopsDone' = stopsDone + 1
    /\ Goto("stopper", "s_idle")
    /\ UNCHANGED callVars
    /\ UNCHANGED << handlerVars, potVars >>
    /\ UNCHANGED << serverVars, clientVars, envVars, histVars, listening,
                    hpath, attempts, result, directDone >>

\* handler_callback(p) is called directly by a third thread, utilities.py:65
DirectCall ==
    /\ pc["direct"] = "d_idle"
    /\ listening
    /\ directDone < MaxDirect
    /\ \E p \in DirectPaths(state_token) :
          hpath' = [hpath EXCEPT !["direct"] = Some(p)]
    /\ Goto("direct", "h_acquire")
    /\ UNCHANGED callVars
    /\ UNCHANGED << handlerVars, potVars >>
    /\ UNCHANGED << serverVars, clientVars, envVars, histVars, lock,
                    listening, attempts, result, stopsDone, directDone >>

----------------------------------------------------------------------------
(* MonzoClient.authenticate, around wait_for_call.                         *)

\* MonzoClient.redirect_uri()
RedirectUri == << "http://localhost", REDIRECT_PORT, CallbackPath >>

\* the authorization URL, monzo.py:52-56
AuthUrl(token) ==
    [ base |-> "https://auth.monzo.com/",
      client_id |-> "client_id",
      redirect_uri |-> RedirectUri,
      response_type |-> "code",
      state |-> token ]

\* monzo.py:52-61: the URL is built and handed to webbrowser.open, then
\* wait_for_call is entered
AuthOpenBrowser ==
    /\ pc["auth"] = "a_browser"
    /\ browser' = Some(AuthUrl(state_token))
    /\ stopsAtStart' = stopsDone
    /\ Goto("auth", "w_acquire")
    /\ UNCHANGED callVars
    /\ UNCHANGED << handlerVars, potVars >>
    /\ UNCHANGED << serverVars, state_token, access_token, outcome, posted,
                    envVars, firstPath, captures, lateAccepts, lock,
                    listening, hpath, attempts, result, stopsDone,
                    directDone >>

ErrAborted ==
    "MonzoAPIError: Failed to authenticate correctly. The response parameters were invalid."
ErrNoCode == "KeyError: code"
ErrNoState == "KeyError: state"
ErrInvalidState == "Exception: Invalid return state"
ErrStateMismatch == "Exception: State did not match"
ErrNoToken == "KeyError: access_token"

\* the class of the exception authenticate() ends with: MonzoAPIError is
\* raised at monzo.py:64, bare Exception at monzo.py:69 and 74, and the
\* subscripts at monzo.py:66, 68 and 93 raise KeyError
ExceptionClass(o) ==
    CASE o = ErrAborted -> "MonzoAPIError"
      [] o \in {ErrInvalidState, ErrStateMismatch} -> "Exception"
      [] o \in {ErrNoCode, ErrNoState, ErrNoToken} -> "KeyError"
      [] OTHER -> "none"

\* AuthCheck without the test for None at monzo.py:63: the subscript at
\* monzo.py:66 is then applied to None
AuthCheckNoNoneTest(res, token) ==
    IF res.kind = "none"
    THEN "TypeError: 'NoneType' object is not subscriptable"
    ELSE IF KeyCode \notin DOMAIN res.params THEN ErrNoCode
    ELSE IF KeyState \notin DOMAIN res.params THEN ErrNoState
    ELSE IF Len(res.params[KeyState]) # 1 THEN ErrInvalidState
    ELSE IF token # res.params[KeyState][1] THEN ErrStateMismatch
    ELSE "ok"

\* monzo.py:63-74: the statements between wait_for_call and the POST, in
\* their order; "ok" when none of them raises
AuthCheck(res, token) ==
    IF res.kind = "none" THEN ErrAborted
    ELSE IF KeyCode \notin DOMAIN res.params THEN ErrNoCode
    ELSE IF KeyState \notin DOMAIN res.params THEN ErrNoState
    ELSE IF Len(res.params[KeyState]) # 1 THEN ErrInvalidState
    ELSE IF token # res.params[KeyState][1] THEN ErrStateMismatch
    ELSE "ok"

\* AuthValidate that forgets the token of an earlier call when the checks
\* fail
AuthValidateClearsToken ==
    /\ pc["auth"] = "a_validate"
    /\ IF AuthCheck(result, state_token) = "ok"
       THEN /\ UNCHANGED << outcome, access_token >>
            /\ Goto("auth", "a_post")
       ELSE /\ outcome' = AuthCheck(result, state_token)
            /\ access_token' = None
            /\ Goto("auth", "a_done")
    /\ UNCHANGED callVars
    /\ UNCHANGED << handlerVars, potVars >>
    /\ UNCHANGED << serverVars, state_token, browser, posted,
                    envVars, histVars, lock, listening, hpath, attempts,
                    result, stopsDone, directDone >>

AuthValidate ==
    /\ pc["auth"] = "a_validate"
    /\ IF AuthCheck(result, state_token) = "ok"
       THEN /\ UNCHANGED outcome
            /\ Goto("auth", "a_post")
       ELSE /\ outcome' = AuthCheck(result, state_token)
            /\ Goto("auth", "a_done")
    /\ UNCHANGED callVars
    /\ UNCHANGED << handlerVars, potVars >>
    /\ UNCHANGED << serverVars, state_token, access_token, browser, posted,
                    envVars, histVars, lock, listening, hpath, attempts,
                    result, stopsDone, directDone >>

\* exceptions.py:3-41: the class each exception class derives from
BaseClass ==
    [ c \in { "MonzoAPIError", "MonzoBadRequestError",
              "MonzoUnauthorizedError", "MonzoForbiddenError",
              "MonzoNotFoundError", "MonzoMethodNotAllowedError",
              "MonzoNotAcceptableError", "MonzoTooManyRequestsError",
              "MonzoInternalServerError", "MonzoGatewayTimeoutError" } |->
        IF c = "MonzoAPIError" THEN "Exception" ELSE "MonzoAPIError" ]

\* monzo.py:104-114: the exception class of each status that has one
error_map ==
    [ s \in {400, 401, 403, 404, 405, 406, 429, 500, 504} |->
        CASE s = 400 -> "MonzoBadRequestError"
          [] s = 401 -> "MonzoUnauthorizedError"
          [] s = 403 -> "MonzoForbiddenError"
          [] s = 404 -> "MonzoNotFoundError"
          [] s = 405 -> "MonzoMethodNotAllowedError"
          [] s = 406 -> "MonzoNotAcceptableError"
          [] s = 429 -> "MonzoTooManyRequestsError"
          [] s = 500 -> "MonzoInternalServerError"
          [] s = 504 -> "MonzoGatewayTimeoutError" ]

\* monzo.py:116-120: the class _handle_response raises for a response of
\* this status, "none" when it returns the response
_handle_response(status) ==
    IF status < 200 \/ status >= 300
    THEN IF status \in DOMAIN error_map
         THEN error_map[status]
         ELSE "MonzoAPIError"
    ELSE "none"

\* the form data of the token exchange, monzo.py:80-86
ExchangeData(params) ==
    [ grant_type |-> "authorization_code",
      client_id |-> "client_id",
      client_secret |-> "client_secret",
      redirect_uri |-> RedirectUri,
      code |-> params[KeyCode] ]

\* what the token endpoint may answer: a status, and a JSON body that has
\* an access_token or has none
Responses ==
    { [status |-> 200, access_token |-> "tok_live_1"],
      [status |-> 401, access_token |-> None],
      [status |-> 401, access_token |-> "tok_live_2"],
      [status |-> 200, access_token |-> None] }

\* AuthPost without the assignment of monzo.py:93: the token of the body is
\* read and not stored
AuthPostDropsToken ==
    /\ pc["auth"] = "a_post"
    /\ posted' = Some(ExchangeData(result.params))
    /\ \E r \in Responses :
          /\ response' = Some(r)
          /\ outcome' = IF r.access_token = None THEN ErrNoToken ELSE "True"
    /\ Goto("auth", "a_done")
    /\ UNCHANGED << restCall, calls, initToken >>
    /\ UNCHANGED << handlerVars, potVars >>
    /\ UNCHANGED << serverVars, state_token, access_token, browser, envVars,
                    histVars, lock, listening, hpath, attempts, result,
                    stopsDone, directDone >>

\* monzo.py:78-97: the POST, response.json() and data["access_token"]
AuthPost ==
    /\ pc["auth"] = "a_post"
    /\ posted' = Some(ExchangeData(result.params))
    /\ \E r \in Responses :
          /\ response' = Some(r)
          /\ IF r.access_token = None
             THEN outcome' = ErrNoToken /\ UNCHANGED access_token
             ELSE outcome' = "True" /\ access_token' = r.access_token
    /\ Goto("auth", "a_done")
    /\ UNCHANGED << restCall, calls, initToken >>
    /\ UNCHANGED << handlerVars, potVars >>
    /\ UNCHANGED << serverVars, state_token, browser, envVars, histVars,
                    lock, listening, hpath, attempts, result, stopsDone,
                    directDone >>

----------------------------------------------------------------------------
(* A client that is used more than once: authenticate() again, and the     *)
(* REST helpers.                                                           *)

\* the client's thread is in none of the client's methods
ClientIdle == pc["auth"] \in {"c_idle", "a_done"}

\* AuthCall with a state token drawn anew by every authenticate() call
AuthCallFreshToken(collected) ==
    /\ ClientIdle
    /\ pc["stopper"] = "s_idle"
    /\ calls < MaxAuthCalls
    /\ calls' = calls + 1
    /\ \E d \in DrawSeqs : state_token' = random_string(StateTokenLength, d)
    /\ outcome' = "running"
    /\ browser' = Nothing
    /\ posted' = Nothing
    /\ response' = Nothing
    /\ result' = NotReturned
    /\ _cancelled' = FALSE
    /\ _completed' = FALSE
    /\ _path' = Unset
    /\ path' = Nothing
    /\ lock' = "free"
    /\ hpath' = [t \in Threads |-> Nothing]
    /\ attempts' = 0
    /\ firstPath' = Nothing
    /\ captures' = 0
    /\ lateAccepts' = 0
    /\ stopsAtStart' = 0
    /\ IF collected
       THEN listening' = FALSE /\ pending' = 0
       ELSE UNCHANGED << listening, pending >>
    /\ Goto("auth", "a_construct")
    /\ UNCHANGED << handlerVars, potVars >>
    /\ UNCHANGED << access_token, arrived, pathChoices, stopsDone,
                    directDone, restCall, initToken >>

\* authenticate() is called (monzo.py:44) on a client that is idle; nothing
\* of an earlier call is left but the client's fields. The server of an
\* earlier call was never closed (monzo.py:50-97 has no server_close): its
\* socket stays bound until the garbage collector has freed the server,
\* which has happened by now (collected) or has not.
AuthCall(collected) ==
    /\ ClientIdle
    /\ pc["stopper"] = "s_idle"
    /\ calls < MaxAuthCalls
    /\ calls' = calls + 1
    /\ outcome' = "running"
    /\ browser' = Nothing
    /\ posted' = Nothing
    /\ response' = Nothing
    /\ result' = NotReturned
    /\ _cancelled' = FALSE
    /\ _completed' = FALSE
    /\ _path' = Unset
    /\ path' = Nothing
    /\ lock' = "free"
    /\ hpath' = [t \in Threads |-> Nothing]
    /\ attempts' = 0
    /\ firstPath' = Nothing
    /\ captures' = 0
    /\ lateAccepts' = 0
    /\ stopsAtStart' = 0
    /\ IF collected
       THEN listening' = FALSE /\ pending' = 0
       ELSE UNCHANGED << listening, pending >>
    /\ Goto("auth", "a_construct")
    /\ UNCHANGED << handlerVars, potVars >>
    /\ UNCHANGED << state_token, access_token, arrived, pathChoices,
                    stopsDone, directDone, restCall, initToken >>

ErrAddressInUse == "OSError: [Errno 98] Address already in use"

\* OAuthServer.__init__ while the socket of an earlier server is still
\* bound to the port: the bind in HTTPServer.__init__ (utilities.py:63)
\* raises, and authenticate() ends with that error
AuthConstructFails ==
    /\ pc["auth"] = "a_construct"
    /\ listening
    /\ outcome' = ErrAddressInUse
    /\ Goto("auth", "a_done")
    /\ UNCHANGED callVars
    /\ UNCHANGED << handlerVars, potVars >>
    /\ UNCHANGED << serverVars, state_token, access_token, browser, posted,
                    envVars, histVars, lock, listening, hpath, attempts,
                    result, stopsDone, directDone >>

\* the REST helpers, monzo.py:122-169
Methods == {"get", "post", "put", "patch", "delete"}

\* statuses a REST helper is answered with
Statuses == 100..MaxStatus

\* RestCall with the 3xx statuses let through: "status >= 400" for
\* "status >= 300"
RestCallLax(m, s) ==
    /\ ClientIdle
    /\ restCall' = [method |-> m, bearer |-> access_token, status |-> s,
                    raised |-> IF s >= 300 /\ s < 400
                               THEN "none" ELSE _handle_response(s)]
    /\ UNCHANGED << response, calls, initToken >>
    /\ UNCHANGED << handlerVars, potVars >>
    /\ UNCHANGED << serverVars, clientVars, envVars, histVars, lock,
                    listening, pc, hpath, attempts, result, stopsDone,
                    directDone >>

\* get, post, put, patch or delete (monzo.py:122-169) is called and the API
\* answers with status s: the request carries the access token as bearer,
\* and the response goes through _handle_response
RestCall(m, s) ==
    /\ ClientIdle
    /\ restCall' = [method |-> m, bearer |-> access_token, status |-> s,
                    raised |-> _handle_response(s)]
    /\ UNCHANGED << response, calls, initToken >>
    /\ UNCHANGED << handlerVars, potVars >>
    /\ UNCHANGED << serverVars, clientVars, envVars, histVars, lock,
                    listening, pc, hpath, attempts, result, stopsDone,
                    directDone >>

\* PotCall with the default drawn by every call that passes no dedupe_id:
\* "dedupe_id = None" in the signature and random_string(20) in the body
PotCallFreshDedupe(op, supplied, s) ==
    /\ ClientIdle
    /\ \E d \in DrawSeqs :
         LET sent == IF supplied = Nothing
                     THEN random_string(DedupeLength, d)
                     ELSE supplied[1]
         IN  /\ potCall' = [op |-> op, supplied |-> supplied,
                            sent |-> Some(sent),
                            raised |-> _handle_response(s)]
             /\ omittedSent' =
                  IF supplied = Nothing
                  THEN [omittedSent EXCEPT ![op] = @ \cup {sent}]
                  ELSE omittedSent
    /\ restCall' = [method |-> "put", bearer |-> access_token, status |-> s,
                    raised |-> _handle_response(s)]
    /\ UNCHANGED << response, calls, initToken, handlerVars, dedupeDefault >>
    /\ UNCHANGED << serverVars, clientVars, envVars, histVars, lock,
                    listening, pc, hpath, attempts, result, stopsDone,
                    directDone >>

\* deposit_into_pot (monzo.py:195-214) or withdraw_from_pot (monzo.py:
\* 216-235) is called, with a dedupe_id (supplied) or without one (Nothing):
\* the parameter is then the default of the def statement. It is sent as the
\* dedupe_id of a PUT, whose response goes through _handle_response.
PotCall(op, supplied, s) ==
    /\ ClientIdle
    /\ LET sent == IF supplied = Nothing
                   THEN dedupeDefault[op]
                   ELSE supplied[1]
       IN  /\ potCall' = [op |-> op, supplied |-> supplied,
                          sent |-> Some(sent),
                          raised |-> _handle_response(s)]
           /\ omittedSent' =
                IF supplied = Nothing
                THEN [omittedSent EXCEPT ![op] = @ \cup {sent}]
                ELSE omittedSent
    /\ restCall' = [method |-> "put", bearer |-> access_token, status |-> s,
                    raised |-> _handle_response(s)]
    /\ UNCHANGED << response, calls, initToken, handlerVars, dedupeDefault >>
    /\ UNCHANGED << serverVars, clientVars, envVars, histVars, lock,
                    listening, pc, hpath, attempts, result, stopsDone,
                    directDone >>

----------------------------------------------------------------------------
(* Specifications.                                                         *)

Next ==
    \/ Arrive
    \/ AuthConstruct
    \/ AuthOpenBrowser
    \/ WaitAcquire
    \/ WaitCheck
    \/ WaitRelease
    \/ WaitBreak
    \/ HandleRequest
    \/ HandleAccept
    \/ HandleTimeout
    \/ \E t \in {"auth", "direct"} : HandlerAcquire(t)
    \/ \E t \in {"auth", "direct"} : HandlerWrite(t)
    \/ \E t \in {"auth", "direct"} : HandlerRelease(t)
    \/ WaitAcquire2
    \/ WaitResult
    \/ WaitReturn
    \/ AuthValidate
    \/ AuthPost
    \/ StopCall
    \/ StopAcquire
    \/ StopWrite
    \/ StopRelease
    \/ DirectCall

\* one authenticate() call, a second thread that may call stop() and a third
\* that may call handler_callback, on the server of that call
Spec == Init /\ [][Next]_vars

\* every step of the thread inside authenticate
AuthStep ==
    \/ AuthConstruct \/ AuthOpenBrowser
    \/ WaitAcquire \/ WaitCheck \/ WaitRelease \/ WaitBreak
    \/ HandleRequest \/ HandleAccept \/ HandleTimeout
    \/ HandlerAcquire("auth") \/ HandlerWrite("auth")
    \/ HandlerRelease("auth")
    \/ WaitAcquire2 \/ WaitResult \/ WaitReturn
    \/ AuthValidate \/ AuthPost

\* The handshake when no callback ever comes: no connection arrives and
\* nobody calls handler_callback. The thread in authenticate polls, and the
\* second thread may call stop().
QuietNext ==
    \/ AuthConstruct
    \/ AuthOpenBrowser
    \/ WaitAcquire
    \/ WaitCheck
    \/ WaitRelease
    \/ WaitBreak
    \/ HandleRequest
    \/ HandleTimeout
    \/ WaitAcquire2
    \/ WaitResult
    \/ WaitReturn
    \/ AuthValidate
    \/ StopCall
    \/ StopAcquire
    \/ StopWrite
    \/ StopRelease

\* The threads are scheduled fairly. A thread blocked in lock.acquire() gets
\* the lock when it is free again and again: the wait loop leaves it free
\* for the whole of every handle_request, which lasts up to self.timeout.
QuietFairSpec ==
    /\ Init
    /\ [][QuietNext]_vars
    /\ WF_vars(AuthStep)
    /\ WF_vars(StopWrite \/ StopRelease)
    /\ SF_vars(StopAcquire)

\* A server whose only user is the thread in wait_for_call, with one
\* connection queued whose request is the provider's redirect
\* ?code=ABC&state=XYZ, for every ABC and XYZ of the bounded alphabet.
ParseInit ==
    /\ state_token =
         random_string(StateTokenLength, CHOOSE d \in DrawSeqs : TRUE)
    /\ access_token = None
    /\ browser = Some(AuthUrl(state_token))
    /\ outcome = "running"
    /\ posted = Nothing
    /\ response = Nothing
    /\ restCall = NoRestCall
    /\ calls = 1
    /\ initToken = state_token
    /\ potCall = NoPotCall
    /\ omittedSent = [k \in PotOps |-> {}]
    /\ request = Nothing
    /\ reply = Nothing
    /\ cbCount = 0
    /\ methodChoices = BrowserMethods
    /\ FixedDefaults
    /\ _cancelled = FALSE
    /\ _completed = FALSE
    /\ _path = None
    /\ path = Nothing
    /\ lock = "free"
    /\ listening = TRUE
    /\ pc = [t \in Threads |->
                IF t = "auth" THEN "w_acquire"
                ELSE IF t = "stopper" THEN "s_idle" ELSE "d_idle"]
    /\ hpath = [t \in Threads |-> Nothing]
    /\ pending = 1
    /\ arrived = 1
    /\ attempts = 0
    /\ result = NotReturned
    /\ \E abc \in StringsUpTo(MaxValLen), xyz \in StringsUpTo(MaxValLen) :
          pathChoices = { CodeStatePath(abc, xyz) }
    /\ stopsDone = 0
    /\ directDone = 0
    /\ firstPath = Nothing
    /\ captures = 0
    /\ lateAccepts = 0
    /\ stopsAtStart = 0

ParseNext ==
    \/ WaitAcquire
    \/ WaitCheck
    \/ WaitRelease
    \/ WaitBreak
    \/ HandleRequest
    \/ HandleAccept
    \/ HandlerAcquire("auth")
    \/ HandlerWrite("auth")
    \/ HandlerRelease("auth")
    \/ WaitAcquire2
    \/ WaitResult
    \/ WaitReturn

ParseSpec == ParseInit /\ [][ParseNext]_vars

\* a status that lets the response through and one that raises
FewStatuses == {200, 404}

ClientNext ==
    \/ \E collected \in BOOLEAN : AuthCall(collected)
    \/ AuthConstruct
    \/ AuthConstructFails
    \/ AuthOpenBrowser
    \/ Arrive
    \/ WaitAcquire
    \/ WaitCheck
    \/ WaitRelease
    \/ WaitBreak
    \/ HandleRequest
    \/ HandleAccept
    \/ HandleTimeout
    \/ HandlerAcquire("auth")
    \/ HandlerWrite("auth")
    \/ HandlerRelease("auth")
    \/ WaitAcquire2
    \/ WaitResult
    \/ WaitReturn
    \/ AuthValidate
    \/ AuthPost
    \/ StopCall
    \/ StopAcquire
    \/ StopWrite
    \/ StopRelease
    \/ RestCall("get", 200)

\* A client from its construction on: authenticate() called again and
\* again, REST calls in between, and a second thread that may call stop().
ClientSpec == IdleInit /\ [][ClientNext]_vars

\* every helper hands the response to _handle_response in the same way:
\* get is answered with every status, the others with a few
RestNext ==
    \/ \E s \in Statuses : RestCall("get", s)
    \/ \E m \in Methods, s \in FewStatuses : RestCall(m, s)

\* A client whose REST helpers are called again and again.
RestSpec == IdleInit /\ [][RestNext]_vars

\* dedupe_id values a caller passes
SuppliedIds == { << "k", "1" >>, << "k", "2" >> }

PotInit ==
    /\ IdleClient
    /\ methodChoices = BrowserMethods
    /\ DrawnDefaults

PotNext ==
    \E op \in PotOps, s \in FewStatuses :
        \/ PotCall(op, Nothing, s)
        \/ \E id \in SuppliedIds : PotCall(op, Some(id), s)

\* A process in which deposit_into_pot and withdraw_from_pot are called
\* again and again, with and without a dedupe_id.
PotSpec == PotInit /\ [][PotNext]_vars

\* request methods sent to the redirect port
AllMethods == HandledMethods \cup {"HEAD"}

\* paths of requests that are not the provider's redirect
OtherPaths ==
    { << "/" >>,
      << "/", "f", "a", "v", "i", "c", "o", "n", ".", "i", "c", "o" >> }

\* the first authenticate() call, with requests of every method and of
\* more paths coming in
HandlerInit ==
    /\ FirstCall
    /\ pathChoices = CallbackPaths(state_token) \cup OtherPaths
    /\ methodChoices = AllMethods
    /\ FixedDefaults

HandlerNext ==
    \/ Arrive
    \/ AuthConstruct
    \/ AuthOpenBrowser
    \/ WaitAcquire
    \/ WaitCheck
    \/ WaitRelease
    \/ WaitBreak
    \/ HandleRequest
    \/ HandleAccept
    \/ HandleTimeout
    \/ HandlerAcquire("auth")
    \/ HandlerWrite("auth")
    \/ HandlerRelease("auth")
    \/ WaitAcquire2
    \/ WaitResult
    \/ WaitReturn
    \/ AuthValidate
    \/ AuthPost

\* One authenticate() call whose listener is sent requests of every method.
HandlerSpec == HandlerInit /\ [][HandlerNext]_vars

----------------------------------------------------------------------------
(* Properties of the server.                                               *)

\* the thread in authenticate is back from wait_for_call
WaitReturned == pc["auth"] \in {"a_validate", "a_post", "a_done"}

\* C1: at most one of the flags _completed and _cancelled is true, in every
\* state that handler_callback, stop and wait_for_call can reach.
C1_AtMostOneFlag == ~(_completed /\ _cancelled)

\* C2: after two handler_callback calls the path kept is the one of the
\* first call, and the parameters wait_for_call returns are parsed from it.
C2_FirstPathRetained ==
    /\ captures >= 2 => path = firstPath
    /\ (captures >= 2 /\ result.kind = "params")
          => result.params = parse_qs(UrlQuery(firstPath[1]))

\* C3: a stop() whose write happens when a flag is already set changes
\* neither flag nor the captured path.
C3_StopAfterTerminalNoOp ==
    [][ ( /\ pc["stopper"] = "s_write"
          /\ pc'["stopper"] = "s_release"
          /\ (_completed \/ _cancelled) )
        => UNCHANGED << _cancelled, _completed, path >> ]_vars

\* C4: when no callback ever arrives, a stop() issued by the second thread
\* at any point of the wait loop leads to wait_for_call returning None: the
\* two threads never block each other for good on the lock.
C4_StopLeadsToNone ==
    (pc["stopper"] = "s_acquire") ~> (WaitReturned /\ result.kind = "none")

\* C4 happens: stop() was not finished when wait_for_call began, the loop
\* polled, and wait_for_call returned None with the lock free again.
C4_Witness ==
    /\ stopsAtStart = 0
    /\ attempts >= 1
    /\ WaitReturned
    /\ result.kind = "none"
    /\ lock = "free"

\* C7: a server stopped before wait_for_call begins makes wait_for_call
\* return None without a single handle_request attempt (so within one
\* timeout interval), whatever is queued on the port.
C7_StoppedBeforeWait ==
    (stopsAtStart >= 1 /\ WaitReturned)
        => (result.kind = "none" /\ attempts = 0)

\* C7 happens: stopped before the wait, connections queued, returned.
C7_Witness ==
    /\ stopsAtStart >= 1
    /\ WaitReturned
    /\ pending > 0
    /\ result.kind = "none"

\* C8 as claimed: no request is accepted once a flag is set.
C8_NoAcceptAfterTerminal == lateAccepts = 0

\* C8, amended: once a flag is set, at most one more request is accepted,
\* the one of the handle_request attempt that followed the last check that
\* saw both flags false.
C8_AtMostOneLateAccept == lateAccepts <= 1

\* C8 happens: stop() set its flag while a handle_request attempt was
\* under way, and that attempt accepted a request.
C8_Witness == lateAccepts = 1 /\ _cancelled /\ captures >= 1

\* C9: when the wait loop has been left a flag is set, and wait_for_call
\* never takes the branch that raises.
C9_NeverRaises ==
    /\ result.kind # "raised"
    /\ pc["auth"] \in {"w_break", "w_acquire2", "w_result"}
          => (_completed \/ _cancelled)

\* C9 happens: the result is being computed after a stop().
C9_Witness == pc["auth"] = "w_result" /\ _cancelled /\ ~_completed

\* labels at which a thread reads or writes the flags or the path
AccessLabels == {"w_check", "w_result", "h_write", "s_write"}
\* labels at which a thread is outside the three operations
OutsideLabels ==
    {"a_construct", "a_browser", "a_validate", "a_post", "a_done",
     "s_idle", "d_idle"}

\* C10: once the server is constructed, a thread that reads or writes the
\* flags or the path holds the lock, every change of them is made by the
\* holder of the lock, and a thread that has left the operations does not
\* hold it.
C10_LockDiscipline ==
    /\ [](\A t \in Threads :
            /\ pc[t] \in AccessLabels => lock = t
            /\ pc[t] \in OutsideLabels => lock # t)
    /\ [][ (listening /\ << _cancelled, _completed, path >>'
                            # << _cancelled, _completed, path >>)
           => (lock \in Threads /\ pc'[lock] # pc[lock]) ]_vars

\* C10 happens: the callback of an accepted request waits for the lock
\* while stop() holds it for its write.
C10_Witness == pc["stopper"] = "s_write" /\ pc["auth"] = "h_acquire"

----------------------------------------------------------------------------
(* Properties of authenticate.                                             *)

\* the callback carries a state value that differs from the state token
HasOtherState(params, token) ==
    /\ KeyState \in DOMAIN params
    /\ \E i \in 1..Len(params[KeyState]) : params[KeyState][i] # token

\* C5: when the callback carries a state value different from the state
\* token, authenticate ends with the state error and issues no POST.
C5_WrongStateFails ==
    ( /\ pc["auth"] = "a_done"
      /\ result.kind = "params"
      /\ HasOtherState(result.params, state_token) )
        => ( /\ outcome \in {ErrStateMismatch, ErrInvalidState}
             /\ posted = Nothing )

----------------------------------------------------------------------------
(* Properties of the parsing (ParseSpec).                                  *)

\* the values abc, xyz for which p is the path ?code=abc&state=xyz
InputValues(p) ==
    LET from == Len(CallbackPath) + 1 + Len(KeyCode) + 1 + 1
        tail(k) == SubSeq(p, from + k + 1 + Len(KeyState) + 1, Len(p))
    IN  { << SubSeq(p, from, from + k - 1), tail(k) >> :
            k \in { j \in 0..MaxValLen :
                      /\ from + j + Len(KeyState) + 1 <= Len(p)
                      /\ p = CodeStatePath(SubSeq(p, from, from + j - 1),
                                           tail(j)) } }

\* {"code": [abc], "state": [xyz]}
CodeStateDict(abc, xyz) == (KeyCode :> << abc >>) @@ (KeyState :> << xyz >>)

\* C6 as claimed: for any values ABC and XYZ the parameters returned for
\* the path ?code=ABC&state=XYZ are {"code": [ABC], "state": [XYZ]}.
C6_AnyValues ==
    WaitReturned =>
        \A p \in pathChoices : \A v \in InputValues(p) :
            result = Returned(CodeStateDict(v[1], v[2]))

\* a value parse_qs hands back unchanged: not empty, and free of the
\* separators '&' and ';', of '#', and of the encodings '+' and '%'
IsLiteral(v) ==
    /\ Len(v) > 0
    /\ \A i \in 1..Len(v) : v[i] \notin {"&", ";", "#", "+", "%"}

\* C6, amended: the same for values that are not empty and hold none of
\* the characters & ; # + %.
C6_LiteralValues ==
    WaitReturned =>
        \A p \in pathChoices : \A v \in InputValues(p) :
            (IsLiteral(v[1]) /\ IsLiteral(v[2]))
                => result = Returned(CodeStateDict(v[1], v[2]))

\* C6 happens: a path with two literal values of two characters was parsed.
C6_Witness ==
    /\ WaitReturned
    /\ result.kind = "params"
    /\ \E p \in pathChoices : \E v \in InputValues(p) :
          /\ IsLiteral(v[1]) /\ IsLiteral(v[2])
          /\ Len(v[1]) = 2 /\ v[1][1] # v[1][2]

----------------------------------------------------------------------------
(* C11.                                                                    *)

\* the thread in wait_for_call is inside handle_request(): about to call
\* it, waiting for a connection, or serving one up to the callback's acquire
InHandleRequest == pc["auth"] \in {"w_handle", "w_select", "h_acquire"}

\* C11: the lock is never held by the thread running the wait loop while
\* that thread is executing handle_request(), so the callback's own
\* acquisition never waits for a lock its own thread holds.
C11_LockFreeInHandleRequest == InHandleRequest => lock # "auth"

\* C11 happens: a request was accepted and the handler, run by the thread of
\* the wait loop, is about to acquire the lock for its callback.
C11_Witness ==
    /\ pc["auth"] = "h_acquire"
    /\ hpath["auth"] # Nothing
    /\ lock = "free"

----------------------------------------------------------------------------
(* C12.                                                                    *)

\* C12: in every execution of authenticate() the callback listener is
\* constructed and bound to the redirect port before the browser is handed
\* the authorization URL: whenever the browser has been opened, the listener
\* is bound.
C12_ListenerBeforeBrowser == browser # Nothing => listening

\* C12 happens: the browser was just handed the authorization URL and
\* wait_for_call has not begun.
C12_Witness ==
    /\ browser = Some(AuthUrl(state_token))
    /\ listening
    /\ pc["auth"] = "w_acquire"
    /\ attempts = 0
    /\ result = NotReturned

----------------------------------------------------------------------------
(* C13.                                                                    *)

\* C13: when wait_for_call returns None, authenticate() fails with the
\* authentication-aborted error, issues no token-exchange POST and does not
\* return success.
C13_NoneAborts ==
    result = ReturnedNone =>
        /\ posted = Nothing
        /\ response = Nothing
        /\ pc["auth"] # "a_post"
        /\ outcome # "True"
        /\ access_token = None
        /\ pc["auth"] = "a_done" => outcome = ErrAborted

\* C13 happens: wait_for_call returned None and authenticate() has ended.
C13_Witness ==
    /\ result = ReturnedNone
    /\ pc["auth"] = "a_done"
    /\ outcome = ErrAborted

----------------------------------------------------------------------------
(* C14.                                                                    *)

\* the callback's state is absent, repeated, or one value that is not the
\* state token
StateInvalid(params, token) ==
    \/ KeyState \notin DOMAIN params
    \/ Len(params[KeyState]) # 1
    \/ params[KeyState][1] # token

\* C14: authenticate() fails with one and the same error kind, the one of
\* the state-mismatch error, when the callback has no state parameter, more
\* than one state value, or a single state value that differs from the
\* state token; that kind is neither the kind of the aborted error nor one
\* of the token exchange.  Stated for callbacks that carry a code.
C14_OneInvalidCallbackKind ==
    ( /\ pc["auth"] = "a_done"
      /\ result.kind = "params"
      /\ KeyCode \in DOMAIN result.params
      /\ StateInvalid(result.params, state_token) )
    => /\ ExceptionClass(outcome) = ExceptionClass(ErrStateMismatch)
       /\ ExceptionClass(outcome) # ExceptionClass(ErrAborted)
       /\ ExceptionClass(outcome) # ExceptionClass(ErrNoToken)
       /\ posted = Nothing

----------------------------------------------------------------------------
(* C15.                                                                    *)

\* C15: when the token-exchange POST is answered with a status outside
\* 200..299, authenticate() ends with the error kind _handle_response maps
\* that status to, stores no access token, and issues no second request.
C15_ExchangeErrorMapped ==
    ( /\ pc["auth"] = "a_done"
      /\ response # Nothing
      /\ _handle_response(response[1].status) # "none" )
    => /\ outcome = _handle_response(response[1].status)
       /\ access_token = None

----------------------------------------------------------------------------
(* C16.                                                                    *)

\* the callback wait_for_call returned has exactly one code, and one state
\* that is the state token
GoodCallback ==
    /\ result.kind = "params"
    /\ KeyCode \in DOMAIN result.params
    /\ Len(result.params[KeyCode]) = 1
    /\ KeyState \in DOMAIN result.params
    /\ result.params[KeyState] = << state_token >>

\* C16: when the captured callback carries exactly one code and a single
\* state equal to the state token, the exchange is made, and when its body
\* has access_token = T, authenticate() returns success and the client's
\* access_token is T.
C16_SuccessStoresToken ==
    (pc["auth"] = "a_done" /\ GoodCallback) =>
        /\ posted # Nothing
        /\ response # Nothing
        /\ response[1].access_token # None =>
              /\ outcome = "True"
              /\ access_token = response[1].access_token

\* C16 happens: a good callback, a body with a token, and the call is over.
C16_Witness ==
    /\ pc["auth"] = "a_done"
    /\ GoodCallback
    /\ response = Some([status |-> 200, access_token |-> "tok_live_1"])
    /\ access_token = "tok_live_1"

----------------------------------------------------------------------------
(* C17.                                                                    *)

\* C17: the token exchange is issued only when the callback carries exactly
\* one code value, never when the code is repeated, and the form that is
\* posted has that one value as its code (posted.code lists the values the
\* form carries for the field code).
C17_ExactlyOneCodePosted ==
    posted # Nothing =>
        /\ Len(result.params[KeyCode]) = 1
        /\ posted[1].code = << result.params[KeyCode][1] >>

----------------------------------------------------------------------------
(* C18.                                                                    *)

\* the characters of the generator's alphabet
AlphabetChars == { _SECRETS_ALPHABET[i] : i \in 1..Len(_SECRETS_ALPHABET) }

\* characters easily taken for one another
Confusable == {"0", "1", "I", "O", "l"}

\* C18: every state token of a client has exactly 20 characters, each of
\* them from the generator's alphabet, and none of them is one of the
\* characters 0, 1, I, O, l, which that alphabet is said not to hold.
C18_TokenUnambiguous ==
    /\ Len(state_token) = 20
    /\ \A i \in 1..Len(state_token) :
          /\ state_token[i] \in AlphabetChars
          /\ state_token[i] \notin Confusable

----------------------------------------------------------------------------
(* C19.                                                                    *)

\* C19: the state token is generated once, when the client is constructed,
\* and no later operation changes it: after any sequence of authenticate()
\* calls (successful, aborted or failed) and REST calls, state_token is what
\* it was at construction, and every authorization URL the client built
\* embeds that value.
C19_StateTokenFixed ==
    /\ state_token = initToken
    /\ browser # Nothing => browser[1].state = initToken

\* C19 happens: a second authenticate() call, made after a call that stored
\* a token and after a REST call, has opened the browser and was aborted.
C19_Witness ==
    /\ calls = 2
    /\ access_token # None
    /\ restCall.method = "get"
    /\ browser # Nothing
    /\ pc["auth"] = "a_done"
    /\ outcome = ErrAborted

----------------------------------------------------------------------------
(* C20.                                                                    *)

\* the statuses that have an error kind of their own
NamedStatuses == {400, 401, 403, 404, 405, 406, 429, 500, 504}

\* the kind the claim assigns to each of them
NamedKind(s) ==
    CASE s = 400 -> "MonzoBadRequestError"
      [] s = 401 -> "MonzoUnauthorizedError"
      [] s = 403 -> "MonzoForbiddenError"
      [] s = 404 -> "MonzoNotFoundError"
      [] s = 405 -> "MonzoMethodNotAllowedError"
      [] s = 406 -> "MonzoNotAcceptableError"
      [] s = 429 -> "MonzoTooManyRequestsError"
      [] s = 500 -> "MonzoInternalServerError"
      [] s = 504 -> "MonzoGatewayTimeoutError"

\* C20: a REST helper answered with a status of {400, 401, 403, 404, 405,
\* 406, 429, 500, 504} raises the kind named for that status, which is the
\* kind of no other status and a sub-kind of the generic API error; with any
\* other status below 200 or from 300 on it raises the generic API error;
\* with a status from 200 to 299 it raises nothing and returns the response.
C20_StatusMapping ==
    restCall.method # "none" =>
        LET s == restCall.status
            e == restCall.raised
        IN  /\ s \in NamedStatuses =>
                  /\ e = NamedKind(s)
                  /\ BaseClass[e] = "MonzoAPIError"
                  /\ \A t \in NamedStatuses \ {s} : NamedKind(t) # e
            /\ (s \notin NamedStatuses /\ (s < 200 \/ s >= 300)) =>
                  e = "MonzoAPIError"
            /\ (s >= 200 /\ s <= 299) => e = "none"

\* C20 happens: get was answered 504 and raised the kind of 504.
C20_Witness ==
    /\ restCall.method = "get"
    /\ restCall.status = 504
    /\ restCall.raised = "MonzoGatewayTimeoutError"

----------------------------------------------------------------------------
(* C21.                                                                    *)

\* C21: across any sequence of deposit_into_pot calls in one process, every
\* call that passes no dedupe_id sends the same value, the one random token
\* of the function definition, and every call that passes a dedupe_id sends
\* exactly that value; the same holds for withdraw_from_pot.
C21_DedupeDefaultReused ==
    /\ \A op \in PotOps :
          /\ Cardinality(omittedSent[op]) <= 1
          /\ omittedSent[op] \subseteq {dedupeDefault[op]}
    /\ potCall.op # "none" =>
          /\ potCall.supplied # Nothing => potCall.sent = potCall.supplied
          /\ potCall.supplied = Nothing =>
                potCall.sent = Some(dedupeDefault[potCall.op])

\* C21 happens: both operations were called without a dedupe_id, and the
\* last call passed one.
C21_Witness ==
    /\ \A op \in PotOps : omittedSent[op] # {}
    /\ potCall.op = "withdraw"
    /\ potCall.supplied = Some(<< "k", "2" >>)
    /\ potCall.sent = Some(<< "k", "2" >>)

----------------------------------------------------------------------------
(* C22.                                                                    *)

\* the handler's callback is running for the accepted request
InCallback == pc["auth"] \in {"h_acquire", "h_write", "h_release"}

\* C22: for every request the listener accepted, whatever its method (GET,
\* POST, PUT or DELETE) and whatever its path, the same handling runs: the
\* callback is invoked exactly once, with the request's raw path and query
\* string, and a 200 response with the fixed acknowledgement body is sent.
C22_SameHandling ==
    (request # Nothing /\ request[1].method \in {"GET", "POST", "PUT", "DELETE"})
    => /\ reply = Some([status |-> 200,
                        body |-> "Done. Please go back to the app."])
       /\ cbCount = 1
       /\ InCallback => hpath["auth"] = Some(request[1].path)
       /\ pc["auth"] = "h_release" => path = Some(request[1].path)

\* C22 happens: a DELETE of a path that is not the redirect was handled and
\* its callback has written the path.
C22_Witness ==
    /\ request = Some([method |-> "DELETE", path |-> << "/" >>])
    /\ pc["auth"] = "h_release"
    /\ cbCount = 1
    /\ path = Some(<< "/" >>)

----------------------------------------------------------------------------
(* C23.                                                                    *)

\* C23: the client's access_token is None from construction until an
\* authenticate() call completes successfully, and every authenticate()
\* call that fails leaves access_token exactly as it was before the call:
\* access_token starts as None and the one step that changes it is the
\* step in which an authenticate() call ends with success.
C23_TokenOnlyOnSuccess ==
    /\ access_token = None
    /\ [][ access_token' # access_token =>
              /\ pc["auth"] = "a_post"
              /\ pc'["auth"] = "a_done"
              /\ outcome' = "True" ]_vars

\* C23 happens: a second authenticate() call failed on the state, and the
\* token the first call stored is still there.
C23_Witness ==
    /\ calls = 2
    /\ pc["auth"] = "a_done"
    /\ outcome = ErrStateMismatch
    /\ posted = Nothing
    /\ access_token = "tok_live_1"

----------------------------------------------------------------------------
(* C24.                                                                    *)

\* C24: wait_for_call never returns parsed callback parameters for a
\* cancelled coordinator: whenever the cancelled flag is set at the moment
\* the result is computed, the result is None, even if a callback path was
\* captured as well.
C24_CancelledGivesNone ==
    [][ (pc["auth"] = "w_result" /\ pc'["auth"] # "w_result" /\ _cancelled)
            => result' = ReturnedNone ]_vars

\* C24 happens: the result was computed with both flags set and a path
\* captured, and it is None.
C24_Witness ==
    /\ pc["auth"] = "w_release2"
    /\ _cancelled
    /\ _completed
    /\ path # Nothing
    /\ result = ReturnedNone

----------------------------------------------------------------------------
(* C25.                                                                    *)

\* C25: the callback listener is temporary and single-use: by the time an
\* authenticate() call returns or raises, its listener has been closed and
\* the redirect port released, so that a later authenticate() call in the
\* same process binds the port again and never finds it in use.
C25_ListenerClosedOnReturn ==
    /\ pc["auth"] = "a_done" => ~listening
    /\ outcome # ErrAddressInUse

====
